---------------------------- MODULE Spec2Model ----------------------------
(***************************************************************************)
(* Patient Health Monitor (src/main.py): the risk classifier               *)
(* (PatientHealthMonitor.assess_health_risks), the point-in-time query     *)
(* (PatientHealthMonitor.fetch_patient_data_by_date) and the script run    *)
(* (main) that connects, fetches, classifies, filters and renders.         *)
(*                                                                         *)
(* Units: a1c_level is held in tenths of a percent (7.5 % is 75), so the   *)
(* source's thresholds 7 and 8 read 70 and 80 here.  A percentage shown    *)
(* with one decimal (the f"{x:.1f}" of main) is held in tenths of a        *)
(* percent.                                                                *)
(***************************************************************************)
EXTENDS Integers, Sequences, FiniteSets, TLC

VARIABLES
    tables,          \* the store: Patients, BloodPressure, HeartRate, Oxygen, Diabetes
    store_log,       \* what the store did in this run: connect/query, ok/fail
    conn,            \* monitor.conn: "none" (None) or "open"
    pc,              \* position of main
    selected_date,   \* st.sidebar.date_input
    patient_data,    \* the DataFrame patient_data, a sequence of rows
    selected_gender, \* st.sidebar.multiselect
    filtered_data,   \* the DataFrame filtered_data
    diagnostics,     \* what st.error / st.warning surfaced
    exception,       \* the uncaught exception that ended the run, or "none"
    metrics          \* the percentage deltas st.metric was given, by label

vars == <<tables, store_log, conn, pc, selected_date, patient_data,
          selected_gender, filtered_data, diagnostics, exception, metrics>>

-----------------------------------------------------------------------------
(* Cell values.  pd.isna is true of Null (None / NaN / SQL NULL).  Malformed *)
(* is a non-numeric cell (a str): pd.isna is false of it and an ordering     *)
(* comparison with a number raises TypeError.                                *)

Null == [tag |-> "null"]

Malformed == [tag |-> "str"]

Num(v) == [tag |-> "num", val |-> v]

IsNa(x) == x.tag = "null"

IsNum(x) == x.tag = "num"

\* The value an uncaught TypeError is written as where a label is expected.
Raised == "TypeError"

\* A column that has not been assigned yet.
NoColumn == "<no column>"

-----------------------------------------------------------------------------
(* assess_health_risks and its nested functions.                            *)

\* Python's  x >= s or y >= d : left to right, short-circuit; a comparison
\* of a Malformed cell raises.  "true", "false" or "raise".
OrGe(x, s, y, d) ==
    IF ~IsNum(x) THEN "raise"
    ELSE IF x.val >= s THEN "true"
    ELSE IF ~IsNum(y) THEN "raise"
    ELSE IF y.val >= d THEN "true" ELSE "false"

\* The variant of assess_bp_risk whose thresholds are joined by "and".
assess_bp_risk_and(row) ==
    IF IsNa(row.systolic) \/ IsNa(row.diastolic) THEN "No Data"
    ELSE IF ~IsNum(row.systolic) \/ ~IsNum(row.diastolic) THEN "Error"
    ELSE IF row.systolic.val >= 180 /\ row.diastolic.val >= 120 THEN "Crisis"
    ELSE IF row.systolic.val >= 140 /\ row.diastolic.val >= 90 THEN "High Risk"
    ELSE IF row.systolic.val >= 120 /\ row.diastolic.val >= 80 THEN "Elevated"
    ELSE "Normal"

assess_bp_risk(row) ==
    IF IsNa(row.systolic) \/ IsNa(row.diastolic) THEN "No Data"
    ELSE LET crisis == OrGe(row.systolic, 180, row.diastolic, 120)
             high == OrGe(row.systolic, 140, row.diastolic, 90)
             elevated == OrGe(row.systolic, 120, row.diastolic, 80)
         IN  IF crisis = "raise" THEN "Error"
             ELSE IF crisis = "true" THEN "Crisis"
             ELSE IF high = "raise" THEN "Error"
             ELSE IF high = "true" THEN "High Risk"
             ELSE IF elevated = "raise" THEN "Error"
             ELSE IF elevated = "true" THEN "Elevated"
             ELSE "Normal"

\* The variant of assess_hr_risk whose bounds are inclusive.
assess_hr_risk_inclusive(heart_rate) ==
    IF IsNa(heart_rate) THEN "No Data"
    ELSE IF ~IsNum(heart_rate) THEN Raised
    ELSE IF heart_rate.val >= 120 THEN "High Risk"
    ELSE IF heart_rate.val <= 60 THEN "Low Risk"
    ELSE "Normal"

assess_hr_risk(heart_rate) ==
    IF IsNa(heart_rate) THEN "No Data"
    ELSE IF ~IsNum(heart_rate) THEN Raised
    ELSE IF heart_rate.val > 120 THEN "High Risk"
    ELSE IF heart_rate.val < 60 THEN "Low Risk"
    ELSE "Normal"

\* The variant of assess_o2_risk whose bounds are inclusive.
assess_o2_risk_inclusive(oxygen_level) ==
    IF IsNa(oxygen_level) THEN "No Data"
    ELSE IF ~IsNum(oxygen_level) THEN Raised
    ELSE IF oxygen_level.val <= 90 THEN "Critical"
    ELSE IF oxygen_level.val <= 95 THEN "At Risk"
    ELSE "Normal"

assess_o2_risk(oxygen_level) ==
    IF IsNa(oxygen_level) THEN "No Data"
    ELSE IF ~IsNum(oxygen_level) THEN Raised
    ELSE IF oxygen_level.val < 90 THEN "Critical"
    ELSE IF oxygen_level.val < 95 THEN "At Risk"
    ELSE "Normal"

\* a1c_risk of assess_diabetes_risk: "Normal" unless the column exists and
\* the cell is not null.
a1c_risk(row) ==
    IF row.has_a1c /\ ~IsNa(row.a1c_level)
    THEN IF ~IsNum(row.a1c_level) THEN Raised
         ELSE IF row.a1c_level.val > 80 THEN "High Risk"
         ELSE IF row.a1c_level.val > 70 THEN "At Risk"
         ELSE "Normal"
    ELSE "Normal"

\* glucose_risk of assess_diabetes_risk.
glucose_risk(row) ==
    IF ~IsNa(row.glucose_level)
    THEN IF ~IsNum(row.glucose_level) THEN Raised
         ELSE IF row.glucose_level.val > 200 THEN "High Risk"
         ELSE IF row.glucose_level.val > 140 THEN "At Risk"
         ELSE "Normal"
    ELSE "Normal"

\* The variant of the combination that lets the glucose sub-risk alone decide.
combine_risks_glucose_only(a1c, glucose) == glucose

\* "Combine risks" of assess_diabetes_risk.
combine_risks(a1c, glucose) ==
    IF a1c = "High Risk" \/ glucose = "High Risk" THEN "High Risk"
    ELSE IF a1c = "At Risk" \/ glucose = "At Risk" THEN "At Risk"
    ELSE "Normal"

assess_diabetes_risk(row) ==
    IF IsNa(row.glucose_level) /\ (row.has_a1c /\ IsNa(row.a1c_level))
    THEN "No Data"
    ELSE IF a1c_risk(row) = Raised THEN Raised
    ELSE IF glucose_risk(row) = Raised THEN Raised
    ELSE combine_risks(a1c_risk(row), glucose_risk(row))

\* Is x an element of the list s (Python's  x in risks).
In(x, s) == \E i \in 1..Len(s) : s[i] = x

\* The variant of the precedence chain that tests "No Data" before "Normal"
\* and before the risk labels.
overall_status_no_data_first(risks) ==
    IF In("No Data", risks) THEN "Incomplete Data"
    ELSE IF In("Critical", risks) THEN "Critical"
    ELSE IF In("High Risk", risks) THEN "High Risk"
    ELSE IF In("At Risk", risks) \/ In("Elevated", risks) THEN "At Risk"
    ELSE IF \A i \in 1..Len(risks) : risks[i] = "Normal" THEN "Normal"
    ELSE "Unknown"

\* The variant of the precedence chain in which a blood-pressure Crisis
\* counts as Critical.
overall_status_crisis_critical(risks) ==
    IF In("Critical", risks) \/ In("Crisis", risks) THEN "Critical"
    ELSE IF In("High Risk", risks) THEN "High Risk"
    ELSE IF In("At Risk", risks) \/ In("Elevated", risks) THEN "At Risk"
    ELSE IF \A i \in 1..Len(risks) : risks[i] = "Normal" THEN "Normal"
    ELSE IF In("No Data", risks) THEN "Incomplete Data"
    ELSE "Unknown"

\* The body of determine_overall_status over the list risks.
overall_status(risks) ==
    IF In("Critical", risks) THEN "Critical"
    ELSE IF In("High Risk", risks) THEN "High Risk"
    ELSE IF In("At Risk", risks) \/ In("Elevated", risks) THEN "At Risk"
    ELSE IF \A i \in 1..Len(risks) : risks[i] = "Normal" THEN "Normal"
    ELSE IF In("No Data", risks) THEN "Incomplete Data"
    ELSE "Unknown"

determine_overall_status(row) ==
    overall_status(<<row.BP_Risk, row.HR_Risk, row.O2_Risk, row.Diabetes_Risk>>)

\* df[col] = labels : the column is assigned in every row.
SetColumn(df, col, labels) ==
    [i \in 1..Len(df) |-> [df[i] EXCEPT ![col] = labels[i]]]

\* assess_health_risks(df): the five columns are computed and assigned one
\* after the other, each over all rows; the first function to raise ends the
\* call with the columns assigned so far.  [df, exception].
assess_health_risks(df) ==
    LET n == Len(df)
        bp == [i \in 1..n |-> assess_bp_risk(df[i])]
        hr == [i \in 1..n |-> assess_hr_risk(df[i].heart_rate)]
        o2 == [i \in 1..n |-> assess_o2_risk(df[i].oxygen_level)]
        db == [i \in 1..n |-> assess_diabetes_risk(df[i])]
        df1 == SetColumn(df, "BP_Risk", bp)
        df2 == SetColumn(df1, "HR_Risk", hr)
        df3 == SetColumn(df2, "O2_Risk", o2)
        df4 == SetColumn(df3, "Diabetes_Risk", db)
        st == [i \in 1..n |-> determine_overall_status(df4[i])]
    IN  IF In(Raised, hr) THEN [df |-> df1, exception |-> "TypeError"]
        ELSE IF In(Raised, o2) THEN [df |-> df2, exception |-> "TypeError"]
        ELSE IF In(Raised, db) THEN [df |-> df3, exception |-> "TypeError"]
        ELSE [df |-> SetColumn(df4, "Health_Status", st), exception |-> "none"]

-----------------------------------------------------------------------------
(* The store and fetch_patient_data_by_date.                                *)

\* A record_timestamp: a calendar date and a time of day.
Timestamp(d, t) == [tag |-> "ts", date |-> d, time |-> t]

\* SQL's DATE(record_timestamp).
DateOf(ts) == ts.date

\* a > b on two non-null cells of one column: dates by number, timestamps by
\* date and then by time of day.
Later(a, b) ==
    IF a.tag = "ts"
    THEN a.date > b.date \/ (a.date = b.date /\ a.time > b.time)
    ELSE a.val > b.val

\* The variant of the ordering that is ascending: ORDER BY ... ASC, a sorts
\* strictly before b (NULLS LAST).
SortsBeforeAsc(a, b) ==
    IF IsNa(a) THEN FALSE
    ELSE IF IsNa(b) THEN TRUE
    ELSE Later(b, a)

\* ORDER BY ... DESC: a sorts strictly before b.  PostgreSQL's DESC puts
\* NULLs first.
SortsBefore(a, b) ==
    IF IsNa(b) THEN FALSE
    ELSE IF IsNa(a) THEN TRUE
    ELSE Later(a, b)

\* The ORDER BY list of the window, a sort key per joined row.
OrderKey(j) == <<j.record_date, j.hr_timestamp, j.o2_timestamp, j.diabetes_record_date>>

\* Key k1 sorts strictly before key k2: the first column that tells them
\* apart decides.
KeyBefore(k1, k2) ==
    \E i \in 1..Len(k1) :
        /\ SortsBefore(k1[i], k2[i])
        /\ \A h \in 1..(i - 1) : ~SortsBefore(k2[h], k1[h])

\* LEFT JOIN BloodPressure bp ON p.patient_id = bp.patient_id AND
\* bp.record_date = %s : the matching records, or one all-NULL record.
JoinBP(T, p, date) ==
    LET m == {b \in T.BloodPressure :
                 b.patient_id = p.patient_id /\ b.record_date = date}
    IN  IF m = {}
        THEN {[record_date |-> Null, systolic |-> Null, diastolic |-> Null]}
        ELSE {[record_date |-> Num(b.record_date), systolic |-> Num(b.systolic),
               diastolic |-> Num(b.diastolic)] : b \in m}

JoinHR(T, p, date) ==
    LET m == {h \in T.HeartRate :
                 h.patient_id = p.patient_id /\ DateOf(h.record_timestamp) = date}
    IN  IF m = {}
        THEN {[hr_timestamp |-> Null, heart_rate |-> Null]}
        ELSE {[hr_timestamp |-> h.record_timestamp,
               heart_rate |-> Num(h.heart_rate)] : h \in m}

JoinO2(T, p, date) ==
    LET m == {o \in T.Oxygen :
                 o.patient_id = p.patient_id /\ DateOf(o.record_timestamp) = date}
    IN  IF m = {}
        THEN {[o2_timestamp |-> Null, oxygen_level |-> Null]}
        ELSE {[o2_timestamp |-> o.record_timestamp,
               oxygen_level |-> Num(o.oxygen_level)] : o \in m}

JoinDiabetes(T, p, date) ==
    LET m == {g \in T.Diabetes :
                 g.patient_id = p.patient_id /\ g.record_date = date}
    IN  IF m = {}
        THEN {[diabetes_record_date |-> Null, glucose_level |-> Null]}
        ELSE {[diabetes_record_date |-> Num(g.record_date),
               glucose_level |-> Num(g.glucose_level)] : g \in m}

\* The rows of the CTE LatestReadings in patient p's partition: the four
\* LEFT JOINs multiply.  The query selects no a1c_level; the risk columns
\* do not exist yet.  (first_name, last_name, age, contact_info are carried
\* along unread and are left out.)
JoinedRows(T, p, date) ==
    {[patient_id |-> p.patient_id, gender |-> p.gender,
      record_date |-> bp.record_date, systolic |-> bp.systolic,
      diastolic |-> bp.diastolic,
      heart_rate |-> hr.heart_rate, hr_timestamp |-> hr.hr_timestamp,
      oxygen_level |-> o2.oxygen_level, o2_timestamp |-> o2.o2_timestamp,
      glucose_level |-> d.glucose_level,
      diabetes_record_date |-> d.diabetes_record_date,
      has_a1c |-> FALSE, a1c_level |-> Null,
      BP_Risk |-> NoColumn, HR_Risk |-> NoColumn, O2_Risk |-> NoColumn,
      Diabetes_Risk |-> NoColumn, Health_Status |-> NoColumn] :
        bp \in JoinBP(T, p, date), hr \in JoinHR(T, p, date),
        o2 \in JoinO2(T, p, date), d \in JoinDiabetes(T, p, date)}

\* The rows ROW_NUMBER() may number 1 in p's partition: those no other row
\* of the partition sorts strictly before.  Rows with equal sort keys are
\* numbered in an order SQL leaves open.
RowNumberOne(T, p, date) ==
    {j \in JoinedRows(T, p, date) :
        \A k \in JoinedRows(T, p, date) : ~KeyBefore(OrderKey(k), OrderKey(j))}

\* The sequences that list the elements of S once each.
Orderings(S) ==
    {s \in [1..Cardinality(S) -> S] : \A x \in S : \E i \in 1..Cardinality(S) : s[i] = x}

\* What SELECT * FROM LatestReadings WHERE rn = 1 may return: one rn = 1 row
\* per partition, in any order (the query has no outer ORDER BY).
QueryResults(T, date) ==
    LET P == T.Patients
        pick == {c \in [P -> UNION {RowNumberOne(T, p, date) : p \in P}] :
                    \A p \in P : c[p] \in RowNumberOne(T, p, date)}
    IN  UNION {Orderings({c[p] : p \in P}) : c \in pick}

-----------------------------------------------------------------------------
(* The contents the store is drawn from.                                    *)

\* Most observations (rows of the four vitals tables together) in the store
\* of a query-only run.
MaxObs == 3

\* Most observations in the store of a whole script run.
MaxRunObs == 2

\* Most rows of a DataFrame handed to assess_health_risks directly.
MaxRows == 2

PatientIds == {1, 2}

Dates == {1, 2}

Times == {1, 2}

GenderOf(p) == IF p = 1 THEN "F" ELSE "M"

BPReadings == {<<110, 70>>, <<150, 95>>}

GlucoseReadings == {100, 150}

\* The reading taken at a timestamp: not monotone in the timestamp, so the
\* latest reading is not always the highest.
HRReadingAt(d, t) == IF d = t THEN 70 ELSE 130

O2ReadingAt(d, t) == IF d = t THEN 98 ELSE 88

\* The rows a vitals table may hold, each tagged with its table.
ObsUniverse ==
    {<<"BloodPressure", [patient_id |-> p, record_date |-> d,
                         systolic |-> v[1], diastolic |-> v[2]]>> :
        p \in PatientIds, d \in Dates, v \in BPReadings}
    \cup {<<"HeartRate", [patient_id |-> p, record_timestamp |-> Timestamp(d, t),
                          heart_rate |-> HRReadingAt(d, t)]>> :
        p \in PatientIds, d \in Dates, t \in Times}
    \cup {<<"Oxygen", [patient_id |-> p, record_timestamp |-> Timestamp(d, t),
                       oxygen_level |-> O2ReadingAt(d, t)]>> :
        p \in PatientIds, d \in Dates, t \in Times}
    \cup {<<"Diabetes", [patient_id |-> p, record_date |-> d, glucose_level |-> g]>> :
        p \in PatientIds, d \in Dates, g \in GlucoseReadings}

\* The subsets of S of at most k elements: those without some element x of
\* S, and those with it.
RECURSIVE SubsetsUpTo(_, _)
SubsetsUpTo(S, k) ==
    IF k = 0 \/ S = {} THEN {{}}
    ELSE LET x == CHOOSE y \in S : TRUE
             rest == S \ {x}
         IN  SubsetsUpTo(rest, k) \cup {T \cup {x} : T \in SubsetsUpTo(rest, k - 1)}

TableOf(U, name) == {x[2] : x \in {y \in U : y[1] = name}}

\* The store whose Patients are those of ids and whose vitals tables hold
\* the observations of U.  patient_id is the key of Patients; an observation
\* may name a patient Patients does not hold.
Store(ids, U) ==
    [Patients |-> {[patient_id |-> p, gender |-> GenderOf(p)] : p \in ids},
     BloodPressure |-> TableOf(U, "BloodPressure"),
     HeartRate |-> TableOf(U, "HeartRate"),
     Oxygen |-> TableOf(U, "Oxygen"),
     Diabetes |-> TableOf(U, "Diabetes")]

EmptyStore == [Patients |-> {}, BloodPressure |-> {}, HeartRate |-> {},
               Oxygen |-> {}, Diabetes |-> {}]

-----------------------------------------------------------------------------
(* main: one run of the script.  Streamlit runs main from the top on every  *)
(* interaction; the widgets return the session's current values, so the     *)
(* date and the gender selection are inputs of the run.                     *)

\* The state a run starts in, over store T.
RunStart(T) ==
    /\ tables = T
    /\ store_log = <<>>
    /\ conn = "none"
    /\ pc = "connect"
    /\ selected_date = 0
    /\ patient_data = <<>>
    /\ selected_gender = {}
    /\ filtered_data = <<>>
    /\ diagnostics = {}
    /\ exception = "none"
    /\ metrics = <<>>

\* connect_to_database succeeds: main goes on to the date input.
ConnectOk ==
    /\ pc = "connect"
    /\ conn' = "open"
    /\ store_log' = Append(store_log, "connect ok")
    /\ pc' = "date"
    /\ UNCHANGED <<tables, selected_date, patient_data, selected_gender,
                   filtered_data, diagnostics, exception, metrics>>

\* The variant of the failed connect in which main goes on regardless.
ConnectFail_goes_on ==
    /\ pc = "connect"
    /\ store_log' = Append(store_log, "connect failed")
    /\ diagnostics' = diagnostics \cup {"Database Connection Error"}
    /\ pc' = "date"
    /\ UNCHANGED <<tables, conn, selected_date, patient_data, selected_gender,
                   filtered_data, exception, metrics>>

\* psycopg2.connect (or conn.cursor) raises: st.error, return False, and
\* main calls st.stop().
ConnectFail ==
    /\ pc = "connect"
    /\ store_log' = Append(store_log, "connect failed")
    /\ diagnostics' = diagnostics \cup {"Database Connection Error"}
    /\ pc' = "stopped"
    /\ UNCHANGED <<tables, conn, selected_date, patient_data, selected_gender,
                   filtered_data, exception, metrics>>

\* st.sidebar.date_input
SelectDate ==
    /\ pc = "date"
    /\ \E d \in Dates : selected_date' = d
    /\ pc' = "fetch"
    /\ UNCHANGED <<tables, store_log, conn, patient_data, selected_gender,
                   filtered_data, diagnostics, exception, metrics>>

\* fetch_patient_data_by_date: the query runs and returns its rows.
FetchOk ==
    /\ pc = "fetch"
    /\ conn = "open"
    /\ \E r \in QueryResults(tables, selected_date) : patient_data' = r
    /\ store_log' = Append(store_log, "query ok")
    /\ pc' = "check_empty"
    /\ UNCHANGED <<tables, conn, selected_date, selected_gender, filtered_data,
                   diagnostics, exception, metrics>>

\* fetch_patient_data_by_date: pd.read_sql_query raises (always when the
\* connection is None): st.error and an empty DataFrame.
FetchFail ==
    /\ pc = "fetch"
    /\ patient_data' = <<>>
    /\ store_log' = Append(store_log, "query failed")
    /\ diagnostics' = diagnostics \cup {"Error fetching data"}
    /\ pc' = "check_empty"
    /\ UNCHANGED <<tables, conn, selected_date, selected_gender, filtered_data,
                   exception, metrics>>

\* if patient_data.empty: st.warning(...); st.stop()
CheckEmpty ==
    /\ pc = "check_empty"
    /\ IF patient_data = <<>>
       THEN /\ diagnostics' = diagnostics \cup {"No patient data available"}
            /\ pc' = "stopped"
       ELSE /\ pc' = "assess"
            /\ UNCHANGED diagnostics
    /\ UNCHANGED <<tables, store_log, conn, selected_date, patient_data,
                   selected_gender, filtered_data, exception, metrics>>

\* patient_data = monitor.assess_health_risks(patient_data); the DataFrame
\* is changed in place, so columns assigned before an exception stay.
Assess ==
    /\ pc = "assess"
    /\ LET r == assess_health_risks(patient_data)
       IN  /\ patient_data' = r.df
           /\ exception' = r.exception
           /\ pc' = IF r.exception = "none" THEN "filter" ELSE "raised"
    /\ UNCHANGED <<tables, store_log, conn, selected_date, selected_gender,
                   filtered_data, diagnostics, metrics>>

\* patient_data['gender'].unique()
GenderOptions(df) == {df[i].gender : i \in 1..Len(df)}

\* The multiselect over the genders present and the filter by its selection.
Filter ==
    /\ pc = "filter"
    /\ \E g \in SUBSET GenderOptions(patient_data) :
          /\ selected_gender' = g
          /\ filtered_data' = SelectSeq(patient_data, LAMBDA row : row.gender \in g)
    /\ pc' = "tab1"
    /\ UNCHANGED <<tables, store_log, conn, selected_date, patient_data,
                   diagnostics, exception, metrics>>

\* len(df[df[col] == label]) and len(df[df[col] != label])
CountEq(df, col, label) == Cardinality({i \in 1..Len(df) : df[i][col] = label})

CountNe(df, col, label) == Cardinality({i \in 1..Len(df) : df[i][col] # label})

\* count / total * 100 shown with one decimal, in tenths of a percent
\* (total > 0): the nearest tenth.  No value lies halfway between two tenths
\* unless total is a multiple of 16.
Percent(count, total) == (count * 2000 + total) \div (2 * total)

\* Tab "Overview Metrics": the first division by len(filtered_data) raises
\* ZeroDivisionError when no row is left; only the critical percentage is
\* guarded.
Tab1 ==
    /\ pc = "tab1"
    /\ LET n == Len(filtered_data)
       IN  IF n = 0
           THEN /\ exception' = "ZeroDivisionError"
                /\ pc' = "raised"
                /\ UNCHANGED metrics
           ELSE /\ metrics' =
                     [l \in {"BP High Risk", "Heart Rate Risk", "Oxygen Level Risk",
                             "Diabetes High Risk", "Critical Health Status",
                             "Incomplete Health Data"} |->
                        CASE l = "BP High Risk" ->
                               Percent(CountEq(filtered_data, "BP_Risk", "High Risk"), n)
                          [] l = "Heart Rate Risk" ->
                               Percent(CountEq(filtered_data, "HR_Risk", "High Risk"), n)
                          [] l = "Oxygen Level Risk" ->
                               Percent(CountNe(filtered_data, "O2_Risk", "Normal"), n)
                          [] l = "Diabetes High Risk" ->
                               Percent(CountEq(filtered_data, "Diabetes_Risk", "High Risk"), n)
                          [] l = "Critical Health Status" ->
                               Percent(CountEq(filtered_data, "Health_Status", "Critical"), n)
                          [] l = "Incomplete Health Data" ->
                               Percent(CountEq(filtered_data, "Health_Status", "Incomplete Data"), n)]
                /\ pc' = "tab2"
                /\ UNCHANGED exception
    /\ UNCHANGED <<tables, store_log, conn, selected_date, patient_data,
                   selected_gender, filtered_data, diagnostics>>

\* Tabs "Patient Health Details", "Health Risk Analysis" and "Detailed
\* Visualizations": tables and charts of filtered_data, no arithmetic.
Tab2to4 ==
    /\ pc = "tab2"
    /\ pc' = "tab5"
    /\ UNCHANGED <<tables, store_log, conn, selected_date, patient_data,
                   selected_gender, filtered_data, diagnostics, exception, metrics>>

\* Tab "Diabetes Analysis": the high-risk percentage divides by
\* len(filtered_data) unguarded.
Tab5 ==
    /\ pc = "tab5"
    /\ LET n == Len(filtered_data)
       IN  IF n = 0
           THEN /\ exception' = "ZeroDivisionError"
                /\ pc' = "raised"
                /\ UNCHANGED metrics
           ELSE /\ metrics' = metrics @@
                     [l \in {"High Diabetes Risk"} |->
                        Percent(CountEq(filtered_data, "Diabetes_Risk", "High Risk"), n)]
                /\ pc' = "done"
                /\ UNCHANGED exception
    /\ UNCHANGED <<tables, store_log, conn, selected_date, patient_data,
                   selected_gender, filtered_data, diagnostics>>

Init ==
    \E ids \in SUBSET PatientIds, U \in SubsetsUpTo(ObsUniverse, MaxRunObs) :
        RunStart(Store(ids, U))

Next ==
    \/ ConnectOk
    \/ ConnectFail
    \/ SelectDate
    \/ FetchOk
    \/ FetchFail
    \/ CheckEmpty
    \/ Assess
    \/ Filter
    \/ Tab1
    \/ Tab2to4
    \/ Tab5

\* A whole script run over a small store.
Spec == Init /\ [][Next]_vars

InitFetch ==
    \E ids \in SUBSET PatientIds, U \in SubsetsUpTo(ObsUniverse, MaxObs) :
        RunStart(Store(ids, U))

NextFetch ==
    \/ ConnectOk
    \/ SelectDate
    \/ FetchOk

\* The query alone, over a larger store.
SpecFetch == InitFetch /\ [][NextFetch]_vars

-----------------------------------------------------------------------------
(* assess_health_risks called on a DataFrame of the caller's own.           *)

\* Readings on both sides of every threshold of the classifier, and the
\* readings the specification's examples use.
SystolicSamples == {119, 120, 139, 140, 179, 180}

DiastolicSamples == {79, 80, 89, 90, 119, 120}

HeartRateSamples == {59, 60, 120, 121}

OxygenSamples == {89, 90, 94, 95}

GlucoseSamples == {140, 141, 150, 200, 201, 210}

A1CSamples == {70, 71, 75, 80, 81}

Cells(samples) == {Null} \cup {Num(v) : v \in samples}

\* A row of the caller's DataFrame: the vitals, with or without an
\* a1c_level column (a1c is read only when has_a1c).
Row(sys, dia, hr, o2, glu, has_a1c, a1c) ==
    [patient_id |-> 1, gender |-> GenderOf(1),
     record_date |-> Null, systolic |-> sys, diastolic |-> dia,
     heart_rate |-> hr, hr_timestamp |-> Null,
     oxygen_level |-> o2, o2_timestamp |-> Null,
     glucose_level |-> glu, diabetes_record_date |-> Null,
     has_a1c |-> has_a1c, a1c_level |-> a1c,
     BP_Risk |-> NoColumn, HR_Risk |-> NoColumn, O2_Risk |-> NoColumn,
     Diabetes_Risk |-> NoColumn, Health_Status |-> NoColumn]

\* Rows of a batch: every vital a normal reading or a non-numeric cell.
BatchRows ==
    {Row(sys, dia, hr, o2, glu, FALSE, Null) :
        sys \in {Num(110), Malformed}, dia \in {Num(70), Malformed},
        hr \in {Num(70), Malformed}, o2 \in {Num(98), Malformed},
        glu \in {Num(100), Malformed}}

\* The sequences over S of length 1..n.
SeqsUpTo(S, n) == UNION {[1..k -> S] : k \in 1..n}

\* The state in which assess_health_risks is about to run on df.
CallAssess(df) ==
    /\ tables = EmptyStore
    /\ store_log = <<>>
    /\ conn = "none"
    /\ pc = "assess"
    /\ selected_date = 0
    /\ patient_data = df
    /\ selected_gender = {}
    /\ filtered_data = <<>>
    /\ diagnostics = {}
    /\ exception = "none"
    /\ metrics = <<>>

\* One row whose vitals are each absent or a number, with or without an
\* a1c_level column; or a batch of rows with non-numeric cells.
InitClassify ==
    \/ \E sys \in Cells(SystolicSamples), dia \in Cells(DiastolicSamples),
          hr \in Cells(HeartRateSamples), o2 \in Cells(OxygenSamples),
          glu \in Cells(GlucoseSamples) :
          \/ \E a1c \in Cells(A1CSamples) :
                CallAssess(<<Row(sys, dia, hr, o2, glu, TRUE, a1c)>>)
          \/ CallAssess(<<Row(sys, dia, hr, o2, glu, FALSE, Null)>>)
    \/ \E df \in SeqsUpTo(BatchRows, MaxRows) : CallAssess(df)

NextClassify == Assess

\* The classifier alone, over rows of the caller's choice.
SpecClassify == InitClassify /\ [][NextClassify]_vars

-----------------------------------------------------------------------------
(* Properties.                                                              *)

\* The rows of patient_data, a set.
Rows == {patient_data[i] : i \in 1..Len(patient_data)}

\* A cell that is absent or a number.
WellFormed(x) == IsNa(x) \/ IsNum(x)

\* The a1c cell of a row, Null when the row carries no a1c_level.
A1COf(row) == IF row.has_a1c THEN row.a1c_level ELSE Null

\* C1: every classified row with glucose absent and A1C absent (the cell
\* null, or no a1c_level field in the row) has the diabetes label "No Data".
C1_BothAbsentIsNoData ==
    \A row \in Rows :
        (/\ row.Diabetes_Risk # NoColumn
         /\ IsNa(row.glucose_level)
         /\ IsNa(A1COf(row)))
        => row.Diabetes_Risk = "No Data"

\* C2: every classified row whose vitals are each absent or a number has a
\* Health_Status among Critical, High Risk, At Risk, Normal and Incomplete
\* Data, never Unknown.
C2_UnknownUnreachable ==
    \A row \in Rows :
        (/\ row.Health_Status # NoColumn
         /\ WellFormed(row.systolic) /\ WellFormed(row.diastolic)
         /\ WellFormed(row.heart_rate) /\ WellFormed(row.oxygen_level)
         /\ WellFormed(row.glucose_level) /\ WellFormed(A1COf(row)))
        => row.Health_Status \in
             {"Critical", "High Risk", "At Risk", "Normal", "Incomplete Data"}

\* C3: assess_health_risks never raises on a non-numeric cell; once it has
\* run, every row of the batch carries all five labels, and a vital whose
\* cell is non-numeric is labelled Error or No Data.
C3_MalformedNeverRaises ==
    /\ exception # "TypeError"
    /\ pc # "assess" =>
         \A row \in Rows :
            /\ row.BP_Risk # NoColumn /\ row.HR_Risk # NoColumn
            /\ row.O2_Risk # NoColumn /\ row.Diabetes_Risk # NoColumn
            /\ row.Health_Status # NoColumn
            /\ (~WellFormed(row.systolic) \/ ~WellFormed(row.diastolic))
                  => row.BP_Risk \in {"Error", "No Data"}
            /\ ~WellFormed(row.heart_rate) => row.HR_Risk \in {"Error", "No Data"}
            /\ ~WellFormed(row.oxygen_level) => row.O2_Risk \in {"Error", "No Data"}
            /\ ~WellFormed(row.glucose_level)
                  => row.Diabetes_Risk \in {"Error", "No Data"}

\* C4: no run raises ZeroDivisionError, and a run that is past the overview
\* tab has given every percentage of that tab a value, a run that is done
\* also the percentage of the diabetes tab.
C4_NoDivisionByZero ==
    /\ exception # "ZeroDivisionError"
    /\ pc \in {"tab2", "tab5", "done"} =>
         {"BP High Risk", "Heart Rate Risk", "Oxygen Level Risk",
          "Diabetes High Risk", "Critical Health Status",
          "Incomplete Health Data"} \subseteq DOMAIN metrics
    /\ pc = "done" => "High Diabetes Risk" \in DOMAIN metrics

\* The blood-pressure table of the specification.
BPTable(sys, dia) ==
    IF IsNa(sys) \/ IsNa(dia) THEN "No Data"
    ELSE IF sys.val >= 180 \/ dia.val >= 120 THEN "Crisis"
    ELSE IF sys.val >= 140 \/ dia.val >= 90 THEN "High Risk"
    ELSE IF sys.val >= 120 \/ dia.val >= 80 THEN "Elevated"
    ELSE "Normal"

\* C5: every classified row whose systolic and diastolic are each absent or
\* a number has the BP label of the table: No Data if either is null, else
\* the first of Crisis (>= 180 or >= 120), High Risk (>= 140 or >= 90),
\* Elevated (>= 120 or >= 80), Normal; one value over a bound suffices.
C5_BPLabel ==
    \A row \in Rows :
        (/\ row.BP_Risk # NoColumn
         /\ WellFormed(row.systolic) /\ WellFormed(row.diastolic))
        => /\ row.BP_Risk = BPTable(row.systolic, row.diastolic)
           /\ (IsNum(row.systolic) /\ IsNum(row.diastolic)
               /\ (row.systolic.val >= 180 \/ row.diastolic.val >= 120))
                 => row.BP_Risk = "Crisis"

\* A classified row with systolic over the crisis bound and diastolic in the
\* normal range, labelled Crisis.
C5_Witness ==
    \E row \in Rows :
        /\ IsNum(row.systolic) /\ row.systolic.val >= 180
        /\ IsNum(row.diastolic) /\ row.diastolic.val < 80
        /\ row.BP_Risk = "Crisis"

\* High Risk > At Risk > Normal.
Rank(label) ==
    CASE label = "High Risk" -> 3
      [] label = "At Risk" -> 2
      [] label = "Normal" -> 1
      [] OTHER -> 0

\* The sub-risks of the specification, of the values that are present.
SubRisksPresent(row) ==
    {IF A1COf(row).val > 80 THEN "High Risk"
     ELSE IF A1COf(row).val > 70 THEN "At Risk" ELSE "Normal" :
        x \in {y \in {A1COf(row)} : IsNum(y)}}
    \cup
    {IF row.glucose_level.val > 200 THEN "High Risk"
     ELSE IF row.glucose_level.val > 140 THEN "At Risk" ELSE "Normal" :
        x \in {y \in {row.glucose_level} : IsNum(y)}}

\* C6: every classified row whose glucose and A1C are each absent or a
\* number, at least one present, has as diabetes label the worst of the
\* sub-risks of the values present.
C6_DiabetesWorstOf ==
    \A row \in Rows :
        (/\ row.Diabetes_Risk # NoColumn
         /\ WellFormed(row.glucose_level) /\ WellFormed(A1COf(row))
         /\ SubRisksPresent(row) # {})
        => /\ row.Diabetes_Risk \in SubRisksPresent(row)
           /\ \A l \in SubRisksPresent(row) : Rank(l) <= Rank(row.Diabetes_Risk)

\* A classified row with glucose absent and A1C 7.5, labelled At Risk.
C6_Witness ==
    \E row \in Rows :
        /\ IsNa(row.glucose_level)
        /\ row.has_a1c /\ row.a1c_level = Num(75)
        /\ row.Diabetes_Risk = "At Risk"

\* The precedence of the specification over the labels that occur.
Precedence(labels) ==
    IF "Critical" \in labels THEN "Critical"
    ELSE IF "High Risk" \in labels THEN "High Risk"
    ELSE IF "At Risk" \in labels \/ "Elevated" \in labels THEN "At Risk"
    ELSE IF labels = {"Normal"} THEN "Normal"
    ELSE IF "No Data" \in labels THEN "Incomplete Data"
    ELSE "Unknown"

RisksOf(row) == <<row.BP_Risk, row.HR_Risk, row.O2_Risk, row.Diabetes_Risk>>

\* C7: the Health_Status of every classified row is what the precedence
\* gives for its four labels, and determine_overall_status gives the same
\* for its four labels in any other order.
C7_StatusPrecedence ==
    \A row \in Rows :
        row.Health_Status # NoColumn
        => /\ row.Health_Status = Precedence({RisksOf(row)[i] : i \in 1..4})
           /\ \A f \in Permutations(1..4) :
                 overall_status([i \in 1..4 |-> RisksOf(row)[f[i]]])
                   = row.Health_Status

\* A classified row with labels Normal, Normal, No Data, Normal and the
\* status Incomplete Data.
C7_Witness ==
    \E row \in Rows :
        /\ RisksOf(row) = <<"Normal", "Normal", "No Data", "Normal">>
        /\ row.Health_Status = "Incomplete Data"


\* No row was classified or rendered and nothing was raised.
EmptyAnalysis ==
    /\ patient_data = <<>>
    /\ filtered_data = <<>>
    /\ metrics = <<>>
    /\ exception = "none"

\* C8: a failed connect surfaces its diagnostic, stops the run with no
\* query issued and nothing classified, rendered or raised; a failed query
\* surfaces its diagnostic and leaves an empty result, on which the run
\* stops with nothing classified, rendered or raised; and a query is only
\* ever issued on an open connection.
C8_StoreFailureEmptyAnalysis ==
    /\ In("connect failed", store_log) =>
         /\ "Database Connection Error" \in diagnostics
         /\ pc = "stopped"
         /\ ~In("query ok", store_log) /\ ~In("query failed", store_log)
         /\ EmptyAnalysis
    /\ In("query failed", store_log) =>
         /\ "Error fetching data" \in diagnostics
         /\ pc \in {"check_empty", "stopped"}
         /\ EmptyAnalysis
    /\ (In("query ok", store_log) \/ In("query failed", store_log)) => conn = "open"

\* A run stopped after a failed query, its diagnostic surfaced.
C8_Witness ==
    /\ In("query failed", store_log)
    /\ pc = "stopped"
    /\ "Error fetching data" \in diagnostics

\* The query has returned its rows.
Fetched == pc = "check_empty" /\ In("query ok", store_log)

C9_HeartRateOf(p) ==
    {h \in tables.HeartRate :
        h.patient_id = p /\ h.record_timestamp.date = selected_date}

C9_OxygenOf(p) ==
    {o \in tables.Oxygen :
        o.patient_id = p /\ o.record_timestamp.date = selected_date}

C9_BloodPressureOf(p) ==
    {b \in tables.BloodPressure : b.patient_id = p /\ b.record_date = selected_date}

C9_DiabetesOf(p) ==
    {g \in tables.Diabetes : g.patient_id = p /\ g.record_date = selected_date}

\* t is the latest of the timestamps of the observations in obs.
C9_Latest(t, obs) ==
    \A k \in obs :
        \/ k.record_timestamp.date < t.date
        \/ k.record_timestamp.date = t.date /\ k.record_timestamp.time <= t.time

\* C9: the rows returned are one per patient of Patients, no patient twice;
\* in each row the heart-rate and the oxygen fields are those of an
\* observation of that patient on the date with the latest timestamp, the
\* blood-pressure and glucose fields those of a record of that patient on
\* the date, and a vital's fields are null exactly when that patient has no
\* observation of the vital on the date.
C9_OneRowPerPatient ==
    Fetched =>
      /\ Len(patient_data) = Cardinality(tables.Patients)
      /\ \A p \in tables.Patients :
            \E i \in 1..Len(patient_data) :
               patient_data[i].patient_id = p.patient_id
      /\ \A row \in Rows :
            /\ \E p \in tables.Patients : p.patient_id = row.patient_id
            /\ IF C9_HeartRateOf(row.patient_id) = {}
               THEN IsNa(row.heart_rate) /\ IsNa(row.hr_timestamp)
               ELSE \E h \in C9_HeartRateOf(row.patient_id) :
                       /\ row.heart_rate = Num(h.heart_rate)
                       /\ row.hr_timestamp = h.record_timestamp
                       /\ C9_Latest(h.record_timestamp, C9_HeartRateOf(row.patient_id))
            /\ IF C9_OxygenOf(row.patient_id) = {}
               THEN IsNa(row.oxygen_level) /\ IsNa(row.o2_timestamp)
               ELSE \E o \in C9_OxygenOf(row.patient_id) :
                       /\ row.oxygen_level = Num(o.oxygen_level)
                       /\ row.o2_timestamp = o.record_timestamp
                       /\ C9_Latest(o.record_timestamp, C9_OxygenOf(row.patient_id))
            /\ IF C9_BloodPressureOf(row.patient_id) = {}
               THEN IsNa(row.systolic) /\ IsNa(row.diastolic) /\ IsNa(row.record_date)
               ELSE \E b \in C9_BloodPressureOf(row.patient_id) :
                       /\ row.systolic = Num(b.systolic)
                       /\ row.diastolic = Num(b.diastolic)
                       /\ row.record_date = Num(b.record_date)
            /\ IF C9_DiabetesOf(row.patient_id) = {}
               THEN IsNa(row.glucose_level) /\ IsNa(row.diabetes_record_date)
               ELSE \E g \in C9_DiabetesOf(row.patient_id) :
                       /\ row.glucose_level = Num(g.glucose_level)
                       /\ row.diabetes_record_date = Num(g.record_date)

\* The query has returned two rows: one of a patient with two heart-rate
\* observations on the date and one on another date, one of a patient with
\* no observation at all.
C9_Witness ==
    /\ Fetched
    /\ Len(patient_data) = 2
    /\ \E row \in Rows :
          /\ Cardinality(C9_HeartRateOf(row.patient_id)) = 2
          /\ \E h \in tables.HeartRate :
                h.patient_id = row.patient_id /\ h.record_timestamp.date # selected_date
          /\ ~IsNa(row.heart_rate)
    /\ \E row \in Rows :
          /\ IsNa(row.heart_rate) /\ IsNa(row.oxygen_level)
          /\ IsNa(row.systolic) /\ IsNa(row.glucose_level)

\* C10: of the blood-pressure records of a patient on the query date the
\* query returns one, and which one is fixed by the store's contents and the
\* date: every result the query may return for them carries the same
\* blood-pressure reading for the patient.
C10_BPChoiceFixed ==
    Fetched =>
      \A r \in QueryResults(tables, selected_date) :
         \A i \in 1..Len(r) : \A row \in Rows :
            r[i].patient_id = row.patient_id
            => /\ r[i].systolic = row.systolic
               /\ r[i].diastolic = row.diastolic


\* The heart-rate rule of the specification.
HRTable(hr) ==
    IF IsNa(hr) THEN "No Data"
    ELSE IF hr.val > 120 THEN "High Risk"
    ELSE IF hr.val < 60 THEN "Low Risk"
    ELSE "Normal"

\* C11: every row whose heart rate is absent or a number and whose HR label
\* is assigned has the label of the rule: null -> No Data, > 120 -> High
\* Risk, < 60 -> Low Risk, otherwise Normal; exactly 60 and exactly 120 are
\* Normal.
C11_HRLabel ==
    \A row \in Rows :
        (row.HR_Risk # NoColumn /\ WellFormed(row.heart_rate))
        => /\ row.HR_Risk = HRTable(row.heart_rate)
           /\ row.heart_rate \in {Num(60), Num(120)} => row.HR_Risk = "Normal"

\* A classified row with heart rate exactly 120, labelled Normal.
C11_Witness ==
    \E row \in Rows : row.heart_rate = Num(120) /\ row.HR_Risk = "Normal"


\* The oxygen-saturation rule of the specification.
O2Table(o2) ==
    IF IsNa(o2) THEN "No Data"
    ELSE IF o2.val < 90 THEN "Critical"
    ELSE IF o2.val < 95 THEN "At Risk"
    ELSE "Normal"

\* C12: every row whose oxygen saturation is absent or a number and whose O2
\* label is assigned has the label of the rule: null -> No Data, < 90 ->
\* Critical, < 95 -> At Risk, otherwise Normal; exactly 90 is At Risk and
\* exactly 95 is Normal.
C12_O2Label ==
    \A row \in Rows :
        (row.O2_Risk # NoColumn /\ WellFormed(row.oxygen_level))
        => /\ row.O2_Risk = O2Table(row.oxygen_level)
           /\ row.oxygen_level = Num(90) => row.O2_Risk = "At Risk"
           /\ row.oxygen_level = Num(95) => row.O2_Risk = "Normal"

\* A classified row with oxygen saturation exactly 90, labelled At Risk.
C12_Witness ==
    \E row \in Rows : row.oxygen_level = Num(90) /\ row.O2_Risk = "At Risk"


\* C13: the Health_Status of a classified row is Critical exactly when its
\* oxygen label is Critical, which is exactly when its oxygen saturation is
\* present and below 90; no blood-pressure, heart-rate, glucose or A1C value
\* makes it Critical.
C13_CriticalIffOxygenCritical ==
    \A row \in Rows :
        row.Health_Status # NoColumn
        => /\ row.Health_Status = "Critical" <=> row.O2_Risk = "Critical"
           /\ row.O2_Risk = "Critical"
                <=> (IsNum(row.oxygen_level) /\ row.oxygen_level.val < 90)

\* A classified row with a blood-pressure Crisis, a heart rate over 120 and
\* glucose over 200, oxygen saturation not below 90, whose status is not
\* Critical.
C13_Witness ==
    \E row \in Rows :
        /\ row.BP_Risk = "Crisis"
        /\ IsNum(row.heart_rate) /\ row.heart_rate.val > 120
        /\ IsNum(row.glucose_level) /\ row.glucose_level.val > 200
        /\ IsNum(row.oxygen_level) /\ row.oxygen_level.val >= 90
        /\ row.Health_Status \notin {NoColumn, "Critical"}

=============================================================================
